---- MODULE Spec2Model ----
(***************************************************************************)
(* A model of pg_config.c: the set-returning function pg_config(), which   *)
(* fills the static table ConfigData from my_exec_path and the build-time  *)
(* constants (get_configdata) and stores one (name, setting) row per entry *)
(* in a tuplestore handed back through the caller's ReturnSetInfo.         *)
(*                                                                         *)
(* C strings are TLA+ strings (the bytes before the NUL); a char * is a    *)
(* record: NULL, a string literal in static storage, or a palloc'd copy    *)
(* that remembers the call that made it and the per-query memory context   *)
(* it lives in.  Table indices are those of the C array (from 0).          *)
(***************************************************************************)
EXTENDS Integers, Sequences, FiniteSets, TLC

\* ------------------------------------------------------------------ bounds

\* Invocations of pg_config() in one backend.
MaxCalls == 2

\* Size of a path buffer, char path[MAXPGPATH].  PostgreSQL's
\* pg_config_manual.h, which is no part of this repository, sets it to 1024;
\* the model takes a smaller buffer, longer than the PGXS suffix and than
\* every short path below, so that a path with the suffix appended may fit,
\* fit exactly or not fit.
MAXPGPATH == 64

\* ------------------------------------------------------- program constants

\* The literal appended to the pkglib path for the PGXS entry.
PgxsSuffix == "/pgxs/src/makefiles/pgxs.mk"

NotRecorded == "not recorded"

\* "PostgreSQL " PG_VERSION: the prefix and the (mandatory) embedded version.
VersionPrefix == "PostgreSQL "
PG_VERSION == "9.0.4"

\* The two errmsg texts of pg_config().
UnsupportedContext ==
    "materialize mode required, but it is not allowed in this context"
SchemaMismatch ==
    "query-specified return tuple and function return type are not compatible"

TEXTOID == "text"
SFRM_ValuePerCall == "SFRM_ValuePerCall"
SFRM_Materialize == "SFRM_Materialize"

\* ------------------------------------------------------------- C strings

NULL == [kind |-> "NULL"]
Literal(s) == [kind |-> "static", str |-> s]

CharAt(s, i) == SubSeq(s, i, i)

RECURSIVE Rep(_, _)
Rep(s, n) ==
    IF n = 0 THEN ""
    ELSE LET h == Rep(s, n \div 2)
         IN  IF n % 2 = 0 THEN h \o h ELSE h \o h \o s

\* strrchr(s, c) as the index (from 1) of the last c in s, 0 for NULL:
\* the scan of s[1..i] from its end.
RECURSIVE strrchr_from(_, _, _)
strrchr_from(s, c, i) ==
    IF i = 0 THEN 0
    ELSE IF CharAt(s, i) = c THEN i
    ELSE strrchr_from(s, c, i - 1)

strrchr(s, c) == strrchr_from(s, c, Len(s))

\* Mutant: strchr for strrchr, the path is cut at its first separator.
RECURSIVE strchr_from(_, _, _)
strchr_from(s, c, i) ==
    IF i > Len(s) THEN 0
    ELSE IF CharAt(s, i) = c THEN i
    ELSE strchr_from(s, c, i + 1)

TrimAtFirstSep(path) ==
    LET firstsep == strchr_from(path, "/", 1)
    IN  IF firstsep # 0 THEN SubSeq(path, 1, firstsep - 1) ELSE path

\* lastsep = strrchr(path, '/'); if (lastsep) *lastsep = '\0';
TrimAtLastSep(path) ==
    LET lastsep == strrchr(path, "/")
    IN  IF lastsep # 0 THEN SubSeq(path, 1, lastsep - 1) ELSE path

\* The loop of cleanup_path: every '\' becomes '/', every other byte stays.
RECURSIVE ReplaceBackslashes(_)
ReplaceBackslashes(s) ==
    IF Len(s) = 0 THEN ""
    ELSE IF Len(s) = 1 THEN (IF s = "\\" THEN "/" ELSE s)
    ELSE LET m == Len(s) \div 2
         IN  ReplaceBackslashes(SubSeq(s, 1, m))
                 \o ReplaceBackslashes(SubSeq(s, m + 1, Len(s)))

\* The copy loop of conf_strlcat: d is dst so far, s what is left of src,
\* n the bytes left in dst (one of them for the NUL).
RECURSIVE strlcat_copy(_, _, _)
strlcat_copy(d, s, n) ==
    IF s = "" THEN d
    ELSE IF n # 1
         THEN strlcat_copy(d \o CharAt(s, 1), SubSeq(s, 2, Len(s)), n - 1)
         ELSE strlcat_copy(d, SubSeq(s, 2, Len(s)), n)

\* conf_strlcat(dst, src, siz): dst afterwards.
conf_strlcat(dst, src, siz) ==
    LET dlen == IF Len(dst) < siz THEN Len(dst) ELSE siz
        n    == siz - dlen
    IN  IF n = 0 THEN dst ELSE strlcat_copy(dst, src, n)

\* ------------------------------------------------------------ the inputs

\* Values my_exec_path may hold: the documented example, a directory with a
\* space, a directory with a backslash, and paths whose pkglib directory
\* leaves 27, 26 and 9 bytes of the buffer free before the NUL (the PGXS
\* suffix is 27 bytes long); the last is as long as my_exec_path[] allows.
LongExec(k) == "/" \o Rep("d", k) \o "/bin/postgres"

ExecPaths ==
    { "/usr/local/pgsql/bin/postgres",
      "/opt/Program Files/pg/bin/postgres",
      "/opt/pg\\9.0/bin/postgres.exe",
      LongExec(MAXPGPATH - 33), LongExec(MAXPGPATH - 32),
      LongExec(MAXPGPATH - 15) }

\* The eight optional build-time constants, by table index.
OptionalIndex == 13 .. 20

EmbeddedValue ==
    [i \in OptionalIndex |->
        CASE i = 13 -> "'--prefix=/usr/local/pgsql'"
          [] i = 14 -> "gcc"
          [] i = 15 -> "-D_GNU_SOURCE"
          [] i = 16 -> "-O2 -Wall"
          [] i = 17 -> "-fpic"
          [] i = 18 -> "-Wl,--as-needed"
          [] i = 19 -> "-shared"
          [] i = 20 -> "-lpgport -lz -lm"]

\* Which of VAL_CONFIGURE .. VAL_LIBS the build defines: none, all, or
\* exactly one.
DefinedSets ==
    {{}, OptionalIndex} \cup {{i} : i \in OptionalIndex}

\* What GetShortPathName finds: nothing (no such path, or short names are
\* disabled), the installation's directories, or every path asked for.
FileSystems == {"none", "dirs", "all"}

\* A tuple descriptor: the type of each attribute (natts is their number).
TupleDesc(types) == [kind |-> "TupleDesc", atttypid |-> types]

\* rsinfo->expectedDesc.
TupleDescs ==
    { TupleDesc(t) :
        t \in { <<"text", "text">>, << >>, <<"text">>, <<"text", "text", "text">>,
                <<"int4", "text">>, <<"text", "varchar">>, <<"int4", "int4">> } }

\* fcinfo->resultinfo: NULL, or a ReturnSetInfo as the executor sets it up.
ResultInfos ==
    {NULL} \cup
    { [kind |-> "ReturnSetInfo", allowedModes |-> m, expectedDesc |-> d,
       returnMode |-> SFRM_ValuePerCall, setResult |-> NULL, setDesc |-> NULL]
      : m \in SUBSET {SFRM_ValuePerCall, SFRM_Materialize}, d \in TupleDescs }

\* ---------------------------------------------------------------- state

VARIABLES
    my_exec_path,           \* the Postgres global: never written here
    WIN32,                  \* the build: #ifdef WIN32
    defined,                \* the build: which VAL_* constants are defined
    filesystem,             \* what GetShortPathName can resolve
    ConfigData,             \* the static table, indices 0 .. 22
    pc,                     \* where the backend is in pg_config()
    call,                   \* invocations started so far
    query,                  \* per-query memory contexts created so far
    rsinfo,                 \* fcinfo->resultinfo of the current call
    tupdesc,                \* the local tupdesc
    tupstore,               \* the local tupstore
    i,                      \* the local i
    CurrentMemoryContext,
    oldcontext,             \* the local oldcontext
    error,                  \* the message of the ereport(ERROR) raised, or ""
    retval,                 \* the Datum returned
    populated               \* the settings' text after each get_configdata so far

vars ==
    << my_exec_path, WIN32, defined, filesystem, ConfigData, pc, call, query,
       rsinfo, tupdesc, tupstore, i, CurrentMemoryContext, oldcontext, error,
       retval, populated >>

build == << my_exec_path, WIN32, defined, filesystem >>
locals == << tupdesc, tupstore, i, oldcontext >>

\* The names of ConfigData[], in the order of the initializer.
ConfigNames ==
    << "BINDIR", "DOCDIR", "HTMLDIR", "INCLUDEDIR", "PKGINCLUDEDIR",
       "INCLUDEDIR-SERVER", "LIBDIR", "PKGLIBDIR", "LOCALEDIR", "MANDIR",
       "SHAREDIR", "SYSCONFDIR", "PGXS", "CONFIGURE", "CC", "CPPFLAGS",
       "CFLAGS", "CFLAGS_SL", "LDFLAGS", "LDFLAGS_SL", "LIBS", "VERSION" >>

NumEntries == Len(ConfigNames)

\* static struct configdata ConfigData[] = { {"BINDIR", NULL}, ..., {NULL, NULL} };
ConfigDataInit ==
    [k \in 0 .. NumEntries |->
        IF k < NumEntries
        THEN [name |-> Literal(ConfigNames[k + 1]), setting |-> NULL]
        ELSE [name |-> NULL, setting |-> NULL]]

\* pstrdup(s): a copy in the current memory context.
pstrdup(s) ==
    [kind |-> "palloc", str |-> s, by |-> call,
     mcxt |-> CurrentMemoryContext, query |-> query]

\* --------------------------------------------------- the services called

\* The path rules of port.h (get_doc_path .. get_etc_path), by table index:
\* each a fixed offset from the installation root, the directory above the
\* one my_exec_path's file is in, in a buffer of MAXPGPATH bytes.
RelativeDir ==
    [k \in 1 .. 11 |->
        CASE k = 1  -> "/share/doc"
          [] k = 2  -> "/share/doc"
          [] k = 3  -> "/include"
          [] k = 4  -> "/include"
          [] k = 5  -> "/include/server"
          [] k = 6  -> "/lib"
          [] k = 7  -> "/lib"
          [] k = 8  -> "/share/locale"
          [] k = 9  -> "/share/man"
          [] k = 10 -> "/share"
          [] k = 11 -> "/etc"]

get_path(k) ==
    LET root == TrimAtLastSep(TrimAtLastSep(my_exec_path))
        full == root \o RelativeDir[k]
    IN  IF Len(full) < MAXPGPATH THEN full ELSE SubSeq(full, 1, MAXPGPATH - 1)

\* The short form of an existing path: no byte of it is a space.
RECURSIVE ShortForm(_)
ShortForm(s) ==
    IF Len(s) = 0 THEN ""
    ELSE IF Len(s) = 1 THEN (IF s = " " THEN "~" ELSE s)
    ELSE LET m == Len(s) \div 2
         IN  ShortForm(SubSeq(s, 1, m)) \o ShortForm(SubSeq(s, m + 1, Len(s)))

PathExists(path) ==
    \/ filesystem = "all"
    \/ /\ filesystem = "dirs"
       /\ path \in {TrimAtLastSep(my_exec_path)} \cup {get_path(k) : k \in 1 .. 11}

\* GetShortPathName(path, path, MAXPGPATH - 1): fails, leaving path as it
\* is, if the path does not exist or short names are disabled.
GetShortPathName(path) ==
    IF PathExists(path) THEN ShortForm(path) ELSE path

\* ------------------------------------------------------- get_configdata

\* Mutant: the body is compiled on every platform.
cleanup_path_Unconditional(path) == ReplaceBackslashes(GetShortPathName(path))

cleanup_path(path) ==
    IF WIN32 THEN ReplaceBackslashes(GetShortPathName(path)) ELSE path

\* What path[] holds for entry k (0 .. 12) when cleanup_path is called.
DerivedPath(k) ==
    IF k = 0 THEN TrimAtLastSep(my_exec_path)
    ELSE IF k = 12 THEN conf_strlcat(get_path(7), PgxsSuffix, MAXPGPATH)
    ELSE get_path(k)

\* The text get_configdata computes for entries 0 .. 12.
PathSetting(k) == cleanup_path(DerivedPath(k))

\* Mutant: the CFLAGS_SL entry copies VAL_CFLAGS.
LiteralSetting_WrongConstant(k) ==
    IF k = 21 THEN VersionPrefix \o PG_VERSION
    ELSE IF k \in defined THEN EmbeddedValue[IF k = 17 THEN 16 ELSE k]
    ELSE NotRecorded

\* The text get_configdata computes for entries 13 .. 21.
LiteralSetting(k) ==
    IF k = 21 THEN VersionPrefix \o PG_VERSION
    ELSE IF k \in defined THEN EmbeddedValue[k] ELSE NotRecorded

\* Mutant: an entry that has a setting keeps it.
NewSetting_KeepOld(k) ==
    IF ConfigData[k].setting # NULL THEN ConfigData[k].setting
    ELSE pstrdup(IF k <= 12 THEN PathSetting(k) ELSE LiteralSetting(k))

\* ConfigData[k].setting after get_configdata, for each entry k it assigns.
NewSetting(k) ==
    pstrdup(IF k <= 12 THEN PathSetting(k) ELSE LiteralSetting(k))

\* Mutant: the table is filled once per backend.
get_configdata_Once ==
    IF ConfigData[0].setting # NULL THEN ConfigData
    ELSE [k \in 0 .. NumEntries |->
            IF k < NumEntries
            THEN [ConfigData[k] EXCEPT !.setting = NewSetting(k)]
            ELSE ConfigData[k]]

\* ConfigData after get_configdata().
get_configdata ==
    [k \in 0 .. NumEntries |->
        IF k < NumEntries
        THEN [ConfigData[k] EXCEPT !.setting = NewSetting(k)]
        ELSE ConfigData[k]]

\* The settings' text, entry by entry ("" for NULL).
SettingText(table) ==
    [k \in 0 .. NumEntries - 1 |->
        IF table[k].setting = NULL THEN "" ELSE table[k].setting.str]

\* ------------------------------------------------------------ pg_config

NoDatum == [kind |-> "none"]
Datum(v) == [kind |-> "Datum", value |-> v]

\* Mutant: the test of allowedModes is left out.
MaterializeRefused_NullOnly(rs) == rs = NULL

\* !rsinfo || !(rsinfo->allowedModes & SFRM_Materialize)
MaterializeRefused(rs) ==
    rs = NULL \/ SFRM_Materialize \notin rs.allowedModes

\* Mutant: the type of the second attribute is not looked at.
TupleDescRefused_FirstOnly(desc) ==
    Len(desc.atttypid) # 2 \/ desc.atttypid[1] # TEXTOID

\* tupdesc->natts != 2 || attrs[0]->atttypid != TEXTOID
\*                     || attrs[1]->atttypid != TEXTOID
TupleDescRefused(desc) ==
    \/ Len(desc.atttypid) # 2
    \/ desc.atttypid[1] # TEXTOID
    \/ desc.atttypid[2] # TEXTOID

\* Mutant: a counted loop that is one short.
LoopCondition_OneShort == i < NumEntries - 1

\* while (ConfigData[i].name)
LoopCondition == ConfigData[i].name # NULL

\* A C string as the text datum of a column (a null column for NULL).
TextDatum(p) ==
    IF p = NULL THEN [isnull |-> TRUE] ELSE [isnull |-> FALSE, text |-> p.str]

\* BuildTupleFromCStrings(attinmeta, values)
BuildTupleFromCStrings(values) == [c \in 1 .. 2 |-> TextDatum(values[c])]

Init ==
    /\ my_exec_path \in ExecPaths
    /\ WIN32 \in BOOLEAN
    /\ defined \in DefinedSets
    /\ filesystem \in (IF WIN32 THEN FileSystems ELSE {"none"})
    /\ ConfigData = ConfigDataInit
    /\ pc = "idle"
    /\ call = 0
    /\ query = 1
    /\ rsinfo = NULL
    /\ tupdesc = NULL
    /\ tupstore = NULL
    /\ i = 0
    /\ CurrentMemoryContext = "caller"
    /\ oldcontext = "caller"
    /\ error = ""
    /\ retval = NoDatum
    /\ populated = << >>

\* The executor calls pg_config(fcinfo).
Call ==
    /\ pc = "idle"
    /\ call < MaxCalls
    /\ \E rs \in ResultInfos : rsinfo' = rs
    /\ call' = call + 1
    /\ i' = 0
    /\ error' = ""
    /\ retval' = NoDatum
    /\ pc' = "check_context"
    /\ UNCHANGED << build, ConfigData, query, tupdesc, tupstore,
                    CurrentMemoryContext, oldcontext, populated >>

\* Lines 108-113: the caller must accept a tuplestore.
CheckContext ==
    /\ pc = "check_context"
    /\ IF MaterializeRefused(rsinfo)
       THEN error' = UnsupportedContext /\ pc' = "error"
       ELSE error' = error /\ pc' = "switch_context"
    /\ UNCHANGED << build, ConfigData, call, query, rsinfo, locals,
                    CurrentMemoryContext, retval, populated >>

\* Lines 115-116: oldcontext = MemoryContextSwitchTo(per_query_ctx).
SwitchContext ==
    /\ pc = "switch_context"
    /\ oldcontext' = CurrentMemoryContext
    /\ CurrentMemoryContext' = "per_query"
    /\ pc' = "check_tupdesc"
    /\ UNCHANGED << build, ConfigData, call, query, rsinfo, tupdesc, tupstore,
                    i, error, retval, populated >>

\* Lines 118-133: copy the expected descriptor and check it.
CheckTupleDesc ==
    /\ pc = "check_tupdesc"
    /\ tupdesc' = rsinfo.expectedDesc
    /\ IF TupleDescRefused(rsinfo.expectedDesc)
       THEN error' = SchemaMismatch /\ pc' = "error"
       ELSE error' = error /\ pc' = "set_return_mode"
    /\ UNCHANGED << build, ConfigData, call, query, rsinfo, tupstore, i,
                    CurrentMemoryContext, oldcontext, retval, populated >>

\* Line 136: rsinfo->returnMode = SFRM_Materialize.
SetReturnMode ==
    /\ pc = "set_return_mode"
    /\ rsinfo' = [rsinfo EXCEPT !.returnMode = SFRM_Materialize]
    /\ pc' = "begin_tuplestore"
    /\ UNCHANGED << build, ConfigData, call, query, locals,
                    CurrentMemoryContext, error, retval, populated >>

\* Line 139: tupstore = tuplestore_begin_heap(true, false, work_mem).
BeginTuplestore ==
    /\ pc = "begin_tuplestore"
    /\ tupstore' = [kind |-> "Tuplestore", rows |-> << >>, storing |-> TRUE,
                    mcxt |-> CurrentMemoryContext, query |-> query]
    /\ pc' = "get_configdata"
    /\ UNCHANGED << build, ConfigData, call, query, rsinfo, tupdesc, i,
                    CurrentMemoryContext, oldcontext, error, retval, populated >>

\* Line 141: get_configdata().
GetConfigData ==
    /\ pc = "get_configdata"
    /\ ConfigData' = get_configdata
    /\ populated' = Append(populated, SettingText(get_configdata))
    /\ pc' = "loop"
    /\ UNCHANGED << build, call, query, rsinfo, locals,
                    CurrentMemoryContext, error, retval >>

\* Lines 142-150: one pass of the loop body.
PutTuple ==
    /\ pc = "loop"
    /\ LoopCondition
    /\ LET values == << ConfigData[i].name, ConfigData[i].setting >>
           tuple  == BuildTupleFromCStrings(values)
       IN  tupstore' = [tupstore EXCEPT !.rows = Append(@, tuple)]
    /\ i' = i + 1
    /\ UNCHANGED << build, ConfigData, pc, call, query, rsinfo, tupdesc,
                    CurrentMemoryContext, oldcontext, error, retval, populated >>

\* Lines 142, 152-158: the loop ends at the entry without a name; the
\* descriptor reference is released and the tuplestore is done storing.
DoneStoring ==
    /\ pc = "loop"
    /\ ~LoopCondition
    /\ tupstore' = [tupstore EXCEPT !.storing = FALSE]
    /\ pc' = "set_result"
    /\ UNCHANGED << build, ConfigData, call, query, rsinfo, tupdesc, i,
                    CurrentMemoryContext, oldcontext, error, retval, populated >>

\* Line 159: rsinfo->setResult = tupstore.
SetResult ==
    /\ pc = "set_result"
    /\ rsinfo' = [rsinfo EXCEPT !.setResult = tupstore]
    /\ pc' = "set_desc"
    /\ UNCHANGED << build, ConfigData, call, query, locals,
                    CurrentMemoryContext, error, retval, populated >>

\* Line 168: rsinfo->setDesc = tupdesc.
SetDesc ==
    /\ pc = "set_desc"
    /\ rsinfo' = [rsinfo EXCEPT !.setDesc = tupdesc]
    /\ pc' = "switch_back"
    /\ UNCHANGED << build, ConfigData, call, query, locals,
                    CurrentMemoryContext, error, retval, populated >>

\* Mutant: the switch back to oldcontext is left out.
SwitchBack_LeftOut ==
    /\ pc = "switch_back"
    /\ pc' = "return"
    /\ UNCHANGED << build, ConfigData, call, query, rsinfo, locals,
                    CurrentMemoryContext, error, retval, populated >>

\* Line 169: MemoryContextSwitchTo(oldcontext).
SwitchBack ==
    /\ pc = "switch_back"
    /\ CurrentMemoryContext' = oldcontext
    /\ pc' = "return"
    /\ UNCHANGED << build, ConfigData, call, query, rsinfo, locals,
                    error, retval, populated >>

\* Line 171: return (Datum) 0.
Return ==
    /\ pc = "return"
    /\ retval' = Datum(0)
    /\ pc' = "returned"
    /\ UNCHANGED << build, ConfigData, call, query, rsinfo, locals,
                    CurrentMemoryContext, error, populated >>

\* The same query calls the function again: its per-query context lives on.
CallAgainInQuery ==
    /\ pc = "returned"
    /\ call < MaxCalls
    /\ pc' = "idle"
    /\ rsinfo' = NULL
    /\ tupdesc' = NULL
    /\ tupstore' = NULL
    /\ i' = 0
    /\ retval' = NoDatum
    /\ UNCHANGED << build, ConfigData, call, query, CurrentMemoryContext,
                    oldcontext, error, populated >>

\* The query ends, normally or by the error: its per-query context is
\* deleted with everything allocated in it, and the next query gets its own.
EndQuery ==
    /\ pc \in {"returned", "error"}
    /\ call < MaxCalls
    /\ query' = query + 1
    /\ CurrentMemoryContext' = "caller"
    /\ oldcontext' = "caller"
    /\ pc' = "idle"
    /\ rsinfo' = NULL
    /\ tupdesc' = NULL
    /\ tupstore' = NULL
    /\ i' = 0
    /\ error' = ""
    /\ retval' = NoDatum
    /\ UNCHANGED << build, ConfigData, call, populated >>

Next ==
    \/ Call
    \/ CheckContext
    \/ SwitchContext
    \/ CheckTupleDesc
    \/ SetReturnMode
    \/ BeginTuplestore
    \/ GetConfigData
    \/ PutTuple
    \/ DoneStoring
    \/ SetResult
    \/ SetDesc
    \/ SwitchBack
    \/ Return
    \/ CallAgainInQuery
    \/ EndQuery

Spec == Init /\ [][Next]_vars

\* A chunk is live while the per-query context it was allocated in exists.
Live(p) == p.kind = "palloc" /\ p.query = query

\* --------------------------------------------------------------- claims

\* Between the end of a call's get_configdata and the end of the call.
Populated ==
    pc \in {"loop", "set_result", "set_desc", "switch_back", "return", "returned"}

\* After the loop of a call.
AfterLoop == pc \in {"set_result", "set_desc", "switch_back", "return", "returned"}

\* The caller's ReturnSetInfo is as it was when the call began.
ResultUntouched ==
    rsinfo # NULL =>
        /\ rsinfo.returnMode = SFRM_ValuePerCall
        /\ rsinfo.setResult = NULL
        /\ rsinfo.setDesc = NULL

\* The current call has written no entry of ConfigData.
NothingPopulated ==
    \A k \in 0 .. NumEntries :
        ConfigData[k].setting # NULL => ConfigData[k].setting.by # call

C1_Names ==
    << "BINDIR", "DOCDIR", "HTMLDIR", "INCLUDEDIR", "PKGINCLUDEDIR",
       "INCLUDEDIR-SERVER", "LIBDIR", "PKGLIBDIR", "LOCALEDIR", "MANDIR",
       "SHAREDIR", "SYSCONFDIR", "PGXS", "CONFIGURE", "CC", "CPPFLAGS",
       "CFLAGS", "CFLAGS_SL", "LDFLAGS", "LDFLAGS_SL", "LIBS", "VERSION" >>

\* C1: a successful invocation puts exactly 22 rows in the result, the i-th
\* row named by the i-th name of the fixed list, whatever my_exec_path is;
\* the loop stops at the entry without a name, which gives no row.
C1_TwentyTwoRowsInOrder ==
    /\ tupstore # NULL =>
          /\ Len(tupstore.rows) <= 22
          /\ \A r \in 1 .. Len(tupstore.rows) :
                tupstore.rows[r][1] = [isnull |-> FALSE, text |-> C1_Names[r]]
    /\ AfterLoop =>
          /\ Len(tupstore.rows) = 22
          /\ i = 22
          /\ ConfigData[i].name = NULL
    /\ pc = "returned" => Len(rsinfo.setResult.rows) = 22

C1_Witness ==
    /\ pc = "returned"
    /\ rsinfo.expectedDesc = TupleDesc(<<"text", "text">>)
    /\ Len(rsinfo.setResult.rows) = 22
    /\ rsinfo.setResult.rows[22][1].text = "VERSION"

\* C2: called where a materialized result is accepted, with a row shape
\* that is not exactly two text columns, pg_config fails with the
\* SchemaMismatch error, and at that point no tuplestore exists, this call
\* has populated nothing and the caller's result fields are untouched.
C2_SchemaMismatchBeforeAnyWork ==
    /\ ( /\ pc \notin {"idle", "check_context", "switch_context", "check_tupdesc"}
         /\ rsinfo # NULL
         /\ SFRM_Materialize \in rsinfo.allowedModes
         /\ rsinfo.expectedDesc # TupleDesc(<<"text", "text">>) )
       => pc = "error" /\ error = SchemaMismatch
    /\ (pc = "error" /\ error = SchemaMismatch)
       => /\ tupstore = NULL
          /\ NothingPopulated
          /\ ResultUntouched

C2_Witness ==
    /\ pc = "error"
    /\ error = SchemaMismatch
    /\ rsinfo.expectedDesc = TupleDesc(<<"text", "varchar">>)
    /\ call = 2
    /\ ConfigData[0].setting # NULL

\* C3: called without a ReturnSetInfo, or with one that does not allow
\* materialize mode, pg_config fails with the UnsupportedContext error,
\* whatever the row shape is, and at that point the memory context has not
\* been switched, this call has populated nothing, no tuplestore exists and
\* the caller's result fields are untouched.
C3_UnsupportedContextFirst ==
    /\ ( /\ pc \notin {"idle", "check_context"}
         /\ (rsinfo = NULL \/ SFRM_Materialize \notin rsinfo.allowedModes) )
       => pc = "error" /\ error = UnsupportedContext
    /\ (pc = "error" /\ error = UnsupportedContext)
       => /\ CurrentMemoryContext = "caller"
          /\ tupdesc = NULL
          /\ tupstore = NULL
          /\ NothingPopulated
          /\ ResultUntouched

C3_Witness ==
    /\ pc = "error"
    /\ error = UnsupportedContext
    /\ rsinfo # NULL
    /\ rsinfo.expectedDesc = TupleDesc(<<"int4", "int4">>)

\* Right after a call's get_configdata.
JustPopulated == pc = "loop" /\ i = 0

\* a is b with every backslash replaced by a slash, and nothing else changed.
SlashesFor(a, b) ==
    /\ Len(a) = Len(b)
    /\ \A j \in 1 .. Len(b) :
          CharAt(a, j) = (IF CharAt(b, j) = "\\" THEN "/" ELSE CharAt(b, j))

\* p is the part of my_exec_path before its last slash.
BeforeLastSlash(p) ==
    \E n \in 1 .. Len(my_exec_path) :
        /\ CharAt(my_exec_path, n) = "/"
        /\ \A m \in n + 1 .. Len(my_exec_path) : CharAt(my_exec_path, m) # "/"
        /\ p = SubSeq(my_exec_path, 1, n - 1)

\* Every setting is a chunk the current call allocated, in a context that
\* still exists.
AllSettingsOwn ==
    \A k \in 0 .. NumEntries - 1 :
        /\ ConfigData[k].setting.kind = "palloc"
        /\ ConfigData[k].setting.by = call
        /\ Live(ConfigData[k].setting)

\* C4 as claimed: an invocation starts from a table of its own, holding
\* nothing another invocation wrote.
C4_NoStateSharedBetweenCalls ==
    pc = "check_context" =>
        \A k \in 0 .. NumEntries - 1 : ConfigData[k].setting = NULL

\* C4, amended: ConfigData is one static table that every invocation
\* writes and the next one finds written, but an invocation overwrites all
\* 22 settings before it reads any, so the values it emits are those it
\* populated itself; my_exec_path is never written.
C4_EmitsOnlyOwnValues ==
    /\ [](Populated =>
            /\ AllSettingsOwn
            /\ \A r \in 1 .. Len(tupstore.rows) :
                  tupstore.rows[r][2] =
                      [isnull |-> FALSE, text |-> ConfigData[r - 1].setting.str])
    /\ [][my_exec_path' = my_exec_path]_vars

C4_Witness ==
    /\ pc = "set_result"
    /\ call = 2
    /\ Len(populated) = 2
    /\ Len(tupstore.rows) = 22

\* C5: after get_configdata the PGXS setting is the PKGLIBDIR setting with
\* the whole of "/pgxs/src/makefiles/pgxs.mk" appended, for every
\* my_exec_path, long ones included.  Stated for the builds without WIN32,
\* where cleanup_path changes neither of the two paths.
C5_PgxsIsPkglibdirPlusSuffix ==
    (JustPopulated /\ ~WIN32) =>
        ConfigData[12].setting.str
            = ConfigData[7].setting.str \o "/pgxs/src/makefiles/pgxs.mk"

\* C6 as claimed: the BINDIR setting is my_exec_path up to its last slash.
C6_BindirIsExecPathMinusLastSegment ==
    JustPopulated => BeforeLastSlash(ConfigData[0].setting.str)

\* C6, amended: the BINDIR setting is cleanup_path of my_exec_path up to its
\* last slash: that prefix itself in a build without WIN32; in a WIN32
\* build, what GetShortPathName makes of the prefix (the prefix itself when
\* it fails) with every backslash replaced by a slash.  my_exec_path is
\* never written.
C6_BindirIsCleanedPrefix ==
    /\ [](JustPopulated =>
            \E p \in {SubSeq(my_exec_path, 1, n) : n \in 0 .. Len(my_exec_path)} :
                /\ BeforeLastSlash(p)
                /\ IF WIN32
                   THEN SlashesFor(ConfigData[0].setting.str, GetShortPathName(p))
                   ELSE ConfigData[0].setting.str = p)
    /\ [][my_exec_path' = my_exec_path]_vars

C6_Witness ==
    /\ JustPopulated
    /\ WIN32
    /\ filesystem = "dirs"
    /\ my_exec_path = "/opt/Program Files/pg/bin/postgres"
    /\ ConfigData[0].setting.str = "/opt/Program~Files/pg/bin"

\* C7 as claimed: where short-path resolution is unsupported or fails, a
\* path setting is the derived path with its separators normalized to '/'.
C7_UnresolvedPathIsNormalized ==
    JustPopulated =>
        \A k \in 0 .. 12 :
            (~WIN32 \/ ~PathExists(DerivedPath(k)))
                => SlashesFor(ConfigData[k].setting.str, DerivedPath(k))

\* C7, amended: in a build without WIN32 a path setting is the derived path
\* with no byte changed, backslashes included; in a WIN32 build, when
\* GetShortPathName fails, it is the derived path with every backslash
\* replaced by a slash.  Neither raises an error: the only errors are the
\* two raised before anything is populated.
C7_UnresolvedPathKept ==
    /\ JustPopulated =>
          \A k \in 0 .. 12 :
              /\ ~WIN32 => ConfigData[k].setting.str = DerivedPath(k)
              /\ (WIN32 /\ ~PathExists(DerivedPath(k)))
                    => SlashesFor(ConfigData[k].setting.str, DerivedPath(k))
    /\ Populated => error = ""
    /\ pc = "error" =>
          /\ error \in {UnsupportedContext, SchemaMismatch}
          /\ NothingPopulated

C7_Witness ==
    /\ JustPopulated
    /\ ~WIN32
    /\ my_exec_path = "/opt/pg\\9.0/bin/postgres.exe"
    /\ ConfigData[0].setting.str = "/opt/pg\\9.0/bin"
    /\ ConfigData[11].setting.str = "/opt/pg\\9.0/etc"

\* C8: after get_configdata each of CONFIGURE .. LIBS is the embedded string
\* of its own constant if the build defines it and "not recorded" if not,
\* and VERSION is "PostgreSQL " followed by the version, never
\* "not recorded".
C8_LiteralSettings ==
    Populated =>
        /\ \A k \in 13 .. 20 :
              ConfigData[k].setting.str
                  = (IF k \in defined THEN EmbeddedValue[k] ELSE "not recorded")
        /\ SubSeq(ConfigData[21].setting.str, 1, 11) = "PostgreSQL "
        /\ SubSeq(ConfigData[21].setting.str, 12,
                  Len(ConfigData[21].setting.str)) = PG_VERSION
        /\ ConfigData[21].setting.str # "not recorded"

C8_Witness ==
    /\ JustPopulated
    /\ defined = {14}
    /\ ConfigData[14].setting.str = "gcc"
    /\ ConfigData[16].setting.str = "not recorded"
    /\ ConfigData[21].setting.str = "PostgreSQL 9.0.4"

C10_OrderOfSuccess ==
    /\ (tupstore # NULL /\ tupstore.rows # << >>)
          => rsinfo.returnMode = SFRM_Materialize
    /\ tupstore # NULL =>
          \A r \in 1 .. Len(tupstore.rows) :
              tupstore.rows[r] = << TextDatum(ConfigData[r - 1].name),
                                    TextDatum(ConfigData[r - 1].setting) >>
    /\ (tupstore # NULL /\ ~tupstore.storing) => Len(tupstore.rows) = 22
    /\ (rsinfo # NULL /\ rsinfo.setResult # NULL)
          => rsinfo.setResult = tupstore /\ ~tupstore.storing
    /\ (rsinfo # NULL /\ rsinfo.setDesc # NULL)
          => /\ rsinfo.setResult # NULL
             /\ rsinfo.setDesc = tupdesc
             /\ tupdesc = TupleDesc(<<"text", "text">>)
    /\ (tupdesc # NULL /\ CurrentMemoryContext = "caller")
          => rsinfo.setDesc # NULL
    /\ retval # NoDatum => pc = "returned"
    /\ pc = "returned" =>
          /\ rsinfo.returnMode = SFRM_Materialize
          /\ rsinfo.setDesc # NULL
          /\ CurrentMemoryContext = "caller"
          /\ retval = Datum(0)

C10_Witness ==
    /\ pc = "returned"
    /\ retval = Datum(0)
    /\ Len(rsinfo.setResult.rows) = 22
    /\ rsinfo.setResult.rows[13][2].text
           = "/usr/local/pgsql/lib/pgxs/src/makefiles/pgxs.mk"

====
